---- MODULE Spec2Model ----
(***************************************************************************)
(* Model of dashboard_interativo.py: a Streamlit script that loads a Jira  *)
(* CSV export, derives Categoria and Lead_Time_Days, applies the sidebar   *)
(* filters, computes the KPI cards, draws the charts and offers the        *)
(* filtered table for download.  One run of the script is a walk through   *)
(* pc; a widget interaction reruns the script from the top.                *)
(*                                                                         *)
(* Timestamps are minutes since day 0; NaT is the missing timestamp.       *)
(* Strings that the code inspects character by character (Issue Type) are  *)
(* sequences of one-character strings.                                     *)
(***************************************************************************)
EXTENDS Integers, Sequences, FiniteSets

(* ------------------------------ bounds --------------------------------- *)
\* longest table built from RowPool
MaxRows == 2
\* largest number of entries picked in one multiselect
MaxSel == 2
\* largest number of optional columns the uploaded file lacks
MaxMissing == 1

(* --------------------------- program constants ------------------------- *)
MinutesPerDay == 1440
SecondsPerMinute == 60
SecondsPerDay == 86400
NaT == -1
Todos == "Todos"
ClosedStatuses == {"Done", "Canceled", "Cancelado"}
OptionalColumns == {"Issue key", "Summary", "Priority", "Assignee"}
columns_to_show == <<"Issue key", "Summary", "Issue Type", "Status",
                     "Priority", "Assignee", "Created", "Resolved">>
RequiredColumns == {"Issue Type", "Status", "Created", "Updated", "Resolved"}

(* ------------------------------ strings -------------------------------- *)
Historia == <<"H", "i", "s", "t", "ó", "r", "i", "a">>
BugWord == <<"B", "u", "g">>
\* a missing cell (NaN) and what str() makes of it
NaN == << >>
NanText == <<"n", "a", "n">>

\* str(x) of the lambda at line 55
Str(x) == IF x = NaN THEN NanText ELSE x

\* Python's `sub in s` on strings
Contains(s, sub) ==
    \E i \in 0..(Len(s) - Len(sub)) :
        \A j \in 1..Len(sub) : s[i + j] = sub[j]

\* variant: 'Bug' compared for equality instead of searched for
Categorize_ExactBug(x) ==
    IF x = Historia THEN "Histórias"
    ELSE IF Str(x) = BugWord THEN "Bugs"
    ELSE "Outros"

\* the lambda applied to 'Issue Type'
Categorize(x) ==
    IF x = Historia THEN "Histórias"
    ELSE IF Contains(Str(x), BugWord) THEN "Bugs"
    ELSE "Outros"

(* ------------------------------- dates --------------------------------- *)
\* a raw date cell: wf says whether it matches '%d/%b/%y %H:%M'
RawDate(day, hm) == [wf |-> TRUE, day |-> day, hm |-> hm]
BadDate == [wf |-> FALSE, day |-> 0, hm |-> 0]

\* pd.to_datetime(..., errors='coerce')
to_datetime(raw) == IF raw.wf THEN raw.day * MinutesPerDay + raw.hm ELSE NaT

\* Timestamp.date() / Series.dt.date
DateOf(ts) == IF ts = NaT THEN NaT ELSE ts \div MinutesPerDay

\* ordering comparisons in which a missing value compares False
Ge(a, b) == a # NaT /\ b # NaT /\ a >= b
Le(a, b) == a # NaT /\ b # NaT /\ a <= b

(* --------------------------- uploaded files ---------------------------- *)
\* one CSV data row: the cells the script reads.  'Updated' is parsed and
\* never read again, so it is not carried.
CsvRow(created, resolved, issueType, status) ==
    [Created |-> created, Resolved |-> resolved,
     IssueType |-> issueType, Status |-> status]

SubBug == <<"S", "u", "b", "-", "B", "u", "g">>
LowerBug == <<"b", "u", "g">>

\* rows the bounded tables are built from
RowPool ==
    { CsvRow(RawDate(1, 870), RawDate(3, 870), Historia, "Done"),
      CsvRow(RawDate(2, 540), RawDate(1, 540), SubBug, "Done"),
      CsvRow(RawDate(1, 870), RawDate(2, 540), LowerBug, "Cancelado"),
      CsvRow(BadDate, RawDate(3, 870), Historia, "In Progress"),
      CsvRow(BadDate, BadDate, NaN, "Canceled") }

RECURSIVE SeqsUpTo(_, _)
SeqsUpTo(S, n) ==
    IF n = 0 THEN {<< >>}
    ELSE LET shorter == SeqsUpTo(S, n - 1)
         IN  shorter \cup {Append(t, x) : t \in shorter, x \in S}

\* the 10-row table of the KPI scenario: 7 'História' rows, 3 'Bug' rows,
\* 6 'Done' rows of which k are bugs, nothing cancelled, created on two days
ScenarioRow(i, k) ==
    LET isBug == i > 7
        isDone == IF isBug THEN i - 7 <= k ELSE i <= 6 - k
    IN  CsvRow(RawDate(1 + (i % 2), 870),
               IF isDone THEN RawDate(3, 870) ELSE BadDate,
               IF isBug THEN BugWord ELSE Historia,
               IF isDone THEN "Done" ELSE "In Progress")
ScenarioTables == {[i \in 1..10 |-> ScenarioRow(i, k)] : k \in 0..3}

Tables == SeqsUpTo(RowPool, MaxRows) \cup ScenarioTables

ColumnSets ==
    {RequiredColumns \cup (OptionalColumns \ m) :
        m \in {s \in SUBSET OptionalColumns : Cardinality(s) <= MaxMissing}}

\* what st.sidebar.file_uploader returns: None, or a CSV file
NoFile == [present |-> FALSE, columns |-> {}, rows |-> << >>]
Files == {NoFile} \cup
         {[present |-> TRUE, columns |-> c, rows |-> t] :
             c \in ColumnSets, t \in Tables}

(* ------------------------------ numbers -------------------------------- *)
\* a float result kept exact: num/den, or NaN
Rat(n, d) == [nan |-> FALSE, num |-> n, den |-> d]
NaNFloat == [nan |-> TRUE, num |-> 0, den |-> 1]
Zero == Rat(0, 1)
RatEq(a, b) == a.nan = b.nan /\ (~a.nan => a.num * b.den = b.num * a.den)

RECURSIVE Insert(_, _)
Insert(sorted, x) ==
    IF sorted = << >> THEN <<x>>
    ELSE IF x <= Head(sorted) THEN <<x>> \o sorted
    ELSE <<Head(sorted)>> \o Insert(Tail(sorted), x)

RECURSIVE Sort(_)
Sort(xs) == IF xs = << >> THEN << >> ELSE Insert(Sort(Tail(xs)), Head(xs))

(* ------------------------------ load_data ------------------------------ *)
\* the frame after the three pd.to_datetime calls (pandas index kept in idx)
ParsedRows(rows) ==
    [i \in 1..Len(rows) |->
        [idx |-> i,
         Created |-> to_datetime(rows[i].Created),
         Resolved |-> to_datetime(rows[i].Resolved),
         IssueType |-> rows[i].IssueType,
         Status |-> rows[i].Status]]

\* variant: the subtraction the other way round
Lead_Time_Days_Swapped(r) ==
    IF r.Created = NaT \/ r.Resolved = NaT THEN NaNFloat
    ELSE Rat((r.Created - r.Resolved) * SecondsPerMinute, SecondsPerDay)

\* (Resolved - Created).dt.total_seconds() / 86400
Lead_Time_Days(r) ==
    IF r.Created = NaT \/ r.Resolved = NaT THEN NaNFloat
    ELSE Rat((r.Resolved - r.Created) * SecondsPerMinute, SecondsPerDay)

WithLeadTime(r) ==
    [idx |-> r.idx, Created |-> r.Created, Resolved |-> r.Resolved,
     IssueType |-> r.IssueType, Status |-> r.Status,
     Lead_Time_Days |-> Lead_Time_Days(r)]

WithCategoria(r) ==
    [idx |-> r.idx, Created |-> r.Created, Resolved |-> r.Resolved,
     IssueType |-> r.IssueType, Status |-> r.Status,
     Categoria |-> Categorize(r.IssueType)]

NotNaT(r) == r.Resolved # NaT

\* resolved_df = df[df['Resolved'].notna()].copy() with Lead_Time_Days
ResolvedFrame(rows) ==
    LET resolved == SelectSeq(ParsedRows(rows), NotNaT)
    IN  [i \in 1..Len(resolved) |-> WithLeadTime(resolved[i])]
\* df with the Categoria column
MainFrame(rows) == [i \in 1..Len(rows) |-> WithCategoria(ParsedRows(rows)[i])]

(* ------------------------------- sidebar ------------------------------- *)
CreatedDays(frame) ==
    {DateOf(frame[i].Created) : i \in 1..Len(frame)} \ {NaT}
\* df['Created'].min().date(): missing values skipped, NaT when none is left
MinDate(frame) ==
    IF CreatedDays(frame) = {} THEN NaT
    ELSE CHOOSE d \in CreatedDays(frame) : \A e \in CreatedDays(frame) : d <= e
MaxDate(frame) ==
    IF CreatedDays(frame) = {} THEN NaT
    ELSE CHOOSE d \in CreatedDays(frame) : \A e \in CreatedDays(frame) : d >= e

StatusOptions(frame) == {Todos} \cup {frame[i].Status : i \in 1..Len(frame)}
TipoOptions(frame) == {Todos} \cup {frame[i].Categoria : i \in 1..Len(frame)}

\* what a multiselect over `options` can return
Selections(options) == {s \in SUBSET options : Cardinality(s) <= MaxSel}

\* what date_input can return between lo and hi: a complete range, or fewer
\* than two endpoints while the user is still picking
DateRanges(lo, hi) ==
    {<< >>} \cup {<<d>> : d \in lo..hi}
            \cup {r \in (lo..hi) \X (lo..hi) : r[1] <= r[2]}

(* ------------------------------- filters ------------------------------- *)
\* variant: a single endpoint already filters
DateFilter_OneEndpoint(frame, range) ==
    IF Len(range) >= 1
    THEN LET keep(r) == Ge(DateOf(r.Created), range[1])
                        /\ Le(DateOf(r.Created), range[Len(range)])
         IN  SelectSeq(frame, keep)
    ELSE frame

\* lines 109-113
DateFilter(frame, range) ==
    IF Len(range) = 2
    THEN LET keep(r) == Ge(DateOf(r.Created), range[1])
                        /\ Le(DateOf(r.Created), range[2])
         IN  SelectSeq(frame, keep)
    ELSE frame

\* variant: 'Todos' is not treated as a sentinel
StatusFilter_NoSentinel(frame, selected) ==
    IF selected # {}
    THEN LET keep(r) == r.Status \in selected IN SelectSeq(frame, keep)
    ELSE frame

\* lines 115-116
StatusFilter(frame, selected) ==
    IF Todos \notin selected /\ selected # {}
    THEN LET keep(r) == r.Status \in selected IN SelectSeq(frame, keep)
    ELSE frame

\* lines 118-119
TipoFilter(frame, selected) ==
    IF Todos \notin selected /\ selected # {}
    THEN LET keep(r) == r.Categoria \in selected IN SelectSeq(frame, keep)
    ELSE frame

\* variant: the category filter indexes df instead of df_filtered
FilterFrame_Unchained(frame, range, status, tipo) ==
    IF Todos \notin tipo /\ tipo # {}
    THEN TipoFilter(frame, tipo)
    ELSE StatusFilter(DateFilter(frame, range), status)

\* lines 108-119: date, then status, then category
FilterFrame(frame, range, status, tipo) ==
    TipoFilter(StatusFilter(DateFilter(frame, range), status), tipo)

(* -------------------------------- KPIs --------------------------------- *)
IsDone(r) == r.Status = "Done"
IsHistoria(r) == r.Categoria = "Histórias"
IsBug(r) == r.Categoria = "Bugs"
IsOpen(r) == r.Status \notin ClosedStatuses

\* line 135
CompletionRate(done, total) == IF total > 0 THEN Rat(done * 100, total) ELSE Zero
\* line 139
RatioValorDivida(h, b) == IF b > 0 THEN Rat(h, b) ELSE Zero
\* variant: only 'Done' counts as closed
Wip_NotDone(frame) ==
    LET open(r) == r.Status # "Done" IN Len(SelectSeq(frame, open))

\* line 143
Wip(frame) == Len(SelectSeq(frame, IsOpen))

\* Series.median(): missing values skipped, NaN when none is left
HasLeadTime(r) == ~r.Lead_Time_Days.nan
LeadNum(r) == r.Lead_Time_Days.num
Median(frame) ==
    LET defined == SelectSeq(frame, HasLeadTime)
        nums == Sort([i \in 1..Len(defined) |-> LeadNum(defined[i])])
        n == Len(nums)
    IN  IF n = 0 THEN NaNFloat
        ELSE IF n % 2 = 1 THEN Rat(nums[(n + 1) \div 2], SecondsPerDay)
        ELSE Rat(nums[n \div 2] + nums[n \div 2 + 1], 2 * SecondsPerDay)

\* variant: the median taken over the resolved records still in the view
LeadTimeMedian_Filtered(resolved, filtered) ==
    LET inView(r) == \E i \in 1..Len(filtered) : filtered[i].idx = r.idx
        kept == SelectSeq(resolved, inView)
    IN  IF Len(kept) > 0 THEN Median(kept) ELSE Zero

\* line 141: resolved_df as load_data returned it, whatever the view
LeadTimeMedian(resolved, filtered) ==
    IF Len(resolved) > 0 THEN Median(resolved) ELSE Zero

(* ------------------------------- state --------------------------------- *)
VARIABLES
    uploaded_file,      \* the file_uploader widget
    pc,                 \* where the current run of the script stands
    fault,              \* the exception that ended the run, or "none"
    df, resolved_df,    \* load_data's result
    min_date, max_date,
    date_range, selected_status, selected_tipo,
    df_filtered,
    kpi,                \* the KPI variables of lines 133-143 and the bug rate
    available_columns

vars == <<uploaded_file, pc, fault, df, resolved_df, min_date, max_date,
          date_range, selected_status, selected_tipo, df_filtered, kpi,
          available_columns>>

NoKpi == [total_issues |-> 0, done_issues |-> 0, completion_rate |-> Zero,
          historias |-> 0, bugs |-> 0, ratio_valor_divida |-> Zero,
          lead_time_median |-> Zero, wip |-> 0, bug_rate |-> Zero]

\* the script's variables before a run has assigned them
Fresh ==
    /\ pc = "upload"
    /\ fault = "none"
    /\ df = << >> /\ resolved_df = << >>
    /\ min_date = NaT /\ max_date = NaT
    /\ date_range = << >> /\ selected_status = {} /\ selected_tipo = {}
    /\ df_filtered = << >>
    /\ kpi = NoKpi
    /\ available_columns = << >>

Init == uploaded_file \in Files /\ Fresh

(* ------------------------------- actions ------------------------------- *)
\* lines 71-75: load_data returns None, the guidance is shown, st.stop()
Prompt ==
    /\ pc = "upload"
    /\ ~uploaded_file.present
    /\ pc' = "prompt"
    /\ UNCHANGED <<uploaded_file, fault, df, resolved_df, min_date, max_date,
                   date_range, selected_status, selected_tipo, df_filtered,
                   kpi, available_columns>>

\* lines 34-59, 71-77: load_data on an uploaded CSV
LoadData ==
    /\ pc = "upload"
    /\ uploaded_file.present
    /\ df' = MainFrame(uploaded_file.rows)
    /\ resolved_df' = ResolvedFrame(uploaded_file.rows)
    /\ pc' = "sidebar"
    /\ UNCHANGED <<uploaded_file, fault, min_date, max_date, date_range,
                   selected_status, selected_tipo, df_filtered, kpi,
                   available_columns>>

\* lines 79-119: the three filter widgets, the values the user gives them,
\* and the filters applied to a copy of df.
\* With no parsable Created value min_date and max_date are NaT; what
\* date_input does with NaT bounds is the library's business: it either
\* raises (DateInputFault) or returns a range that no row can lie in.
ApplyFilters ==
    /\ pc = "sidebar"
    /\ min_date' = MinDate(df)
    /\ max_date' = MaxDate(df)
    /\ date_range' \in
          IF MinDate(df) = NaT THEN {<< >>, <<NaT, NaT>>}
          ELSE DateRanges(MinDate(df), MaxDate(df))
    /\ selected_status' \in Selections(StatusOptions(df))
    /\ selected_tipo' \in Selections(TipoOptions(df))
    /\ df_filtered' = FilterFrame(df, date_range', selected_status', selected_tipo')
    /\ pc' = "filtered"
    /\ UNCHANGED <<uploaded_file, fault, df, resolved_df, kpi, available_columns>>

DateInputFault ==
    /\ pc = "sidebar"
    /\ MinDate(df) = NaT
    /\ min_date' = NaT /\ max_date' = NaT
    /\ fault' = "date_input"
    /\ pc' = "fault"
    /\ UNCHANGED <<uploaded_file, df, resolved_df, date_range,
                   selected_status, selected_tipo, df_filtered, kpi,
                   available_columns>>

\* lines 133-178: the KPI variables, then the five metric cards; the fourth
\* card divides bugs by total_issues with no guard
KPIs ==
    /\ pc = "filtered"
    /\ LET total == Len(df_filtered)
           done == Len(SelectSeq(df_filtered, IsDone))
           h == Len(SelectSeq(df_filtered, IsHistoria))
           b == Len(SelectSeq(df_filtered, IsBug))
           assigned ==
               [total_issues |-> total, done_issues |-> done,
                completion_rate |-> CompletionRate(done, total),
                historias |-> h, bugs |-> b,
                ratio_valor_divida |-> RatioValorDivida(h, b),
                lead_time_median |-> LeadTimeMedian(resolved_df, df_filtered),
                wip |-> Wip(df_filtered),
                bug_rate |-> Zero]
       IN  IF total = 0
           THEN /\ kpi' = assigned
                /\ fault' = "ZeroDivisionError"
                /\ pc' = "fault"
           ELSE /\ kpi' = [assigned EXCEPT !.bug_rate = Rat(b * 100, total)]
                /\ fault' = fault
                /\ pc' = "kpis"
    /\ UNCHANGED <<uploaded_file, df, resolved_df, min_date, max_date,
                   date_range, selected_status, selected_tipo, df_filtered,
                   available_columns>>

\* lines 185-352: the charts; df_filtered['Assignee'] (274) and
\* df_filtered['Priority'] (308) are read with no check that the column exists
Charts ==
    /\ pc = "kpis"
    /\ IF {"Assignee", "Priority"} \subseteq uploaded_file.columns
       THEN pc' = "charts" /\ fault' = fault
       ELSE pc' = "fault" /\ fault' = "KeyError"
    /\ UNCHANGED <<uploaded_file, df, resolved_df, min_date, max_date,
                   date_range, selected_status, selected_tipo, df_filtered,
                   kpi, available_columns>>

InColumns(c) == c \in uploaded_file.columns

\* lines 357-389: the detail table over the columns that exist, the download
TableAndDownload ==
    /\ pc = "charts"
    /\ available_columns' = SelectSeq(columns_to_show, InColumns)
    /\ pc' = "done"
    /\ UNCHANGED <<uploaded_file, fault, df, resolved_df, min_date, max_date,
                   date_range, selected_status, selected_tipo, df_filtered,
                   kpi>>

\* a widget interaction: the script runs again from the top on the same file
Rerun ==
    /\ pc \in {"prompt", "done", "fault"}
    /\ pc' = "upload"
    /\ fault' = "none"
    /\ df' = << >> /\ resolved_df' = << >>
    /\ min_date' = NaT /\ max_date' = NaT
    /\ date_range' = << >> /\ selected_status' = {} /\ selected_tipo' = {}
    /\ df_filtered' = << >>
    /\ kpi' = NoKpi
    /\ available_columns' = << >>
    /\ UNCHANGED uploaded_file

Next ==
    \/ Prompt
    \/ LoadData
    \/ DateInputFault
    \/ ApplyFilters
    \/ KPIs
    \/ Charts
    \/ TableAndDownload
    \/ Rerun

Spec == Init /\ [][Next]_vars

(* ------------------------- shared vocabulary --------------------------- *)
Rows(frame) == {frame[i] : i \in 1..Len(frame)}
Ids(frame) == {frame[i].idx : i \in 1..Len(frame)}

\* load_data has returned its two frames
Loaded == pc \notin {"upload", "prompt"}
\* the filter step of this run has produced df_filtered
Filtered ==
    \/ pc \in {"filtered", "kpis", "charts", "done"}
    \/ pc = "fault" /\ fault # "date_input"
\* the KPI variables of lines 133-143 have been assigned in this run
KpiAssigned ==
    \/ pc \in {"kpis", "charts", "done"}
    \/ pc = "fault" /\ fault # "date_input"

InRange(r) ==
    /\ r.Created # NaT
    /\ date_range[1] # NaT /\ date_range[2] # NaT
    /\ date_range[1] * MinutesPerDay <= r.Created
    /\ r.Created < (date_range[2] + 1) * MinutesPerDay

(* ------------------------------- C1 ------------------------------------ *)
\* C1 (as claimed): whenever the filtered view is empty, the KPI step ends
\* without a division by zero and every headline metric is zero.
C1_EmptyViewNoDivisionFault ==
    (Filtered /\ pc # "filtered" /\ df_filtered = << >>) =>
        /\ fault # "ZeroDivisionError"
        /\ kpi.total_issues = 0 /\ kpi.wip = 0
        /\ RatEq(kpi.completion_rate, Zero)
        /\ RatEq(kpi.ratio_valor_divida, Zero)
        /\ RatEq(kpi.bug_rate, Zero)

(* ------------------------------- C2 ------------------------------------ *)
\* C2 (as claimed): the view is the rows satisfying every enabled predicate,
\* a status/category filter being disabled only by the 'Todos' sentinel.
C2_ClaimedKeep(r) ==
    /\ Len(date_range) = 2 => InRange(r)
    /\ Todos \notin selected_status => r.Status \in selected_status
    /\ Todos \notin selected_tipo => r.Categoria \in selected_tipo
C2_SentinelOnlyDisables ==
    Filtered => df_filtered = SelectSeq(df, C2_ClaimedKeep)

\* C2 (amended): the filtered view is exactly the rows of the derived table
\* that satisfy the AND of the enabled predicates, where a status/category
\* filter is disabled when its selection contains 'Todos' or is empty; with
\* the status selection exactly {"Done"} every row of the view is 'Done'.
C2_Keep(r) ==
    /\ Len(date_range) = 2 => InRange(r)
    /\ (Todos \notin selected_status /\ selected_status # {})
          => r.Status \in selected_status
    /\ (Todos \notin selected_tipo /\ selected_tipo # {})
          => r.Categoria \in selected_tipo
C2_ViewIsConjunction ==
    Filtered =>
        /\ df_filtered = SelectSeq(df, C2_Keep)
        /\ selected_status = {"Done"} =>
              \A r \in Rows(df_filtered) : r.Status = "Done"
C2_Witness ==
    /\ Filtered
    /\ selected_status = {"Done"}
    /\ selected_tipo # {} /\ Todos \notin selected_tipo
    /\ Len(date_range) = 2
    /\ df_filtered # << >>
    /\ Len(df_filtered) < Len(df)

(* ------------------------------- C3 ------------------------------------ *)
\* C3: applying the date, status and category filters in any of the six
\* orders gives the rows (in the same table order) that the script's order
\* (date, status, category) gives.
C3_AnyOrderSameRows ==
    Filtered =>
        LET D(f) == DateFilter(f, date_range)
            S(f) == StatusFilter(f, selected_status)
            T(f) == TipoFilter(f, selected_tipo)
        IN  /\ T(S(D(df))) = df_filtered
            /\ S(T(D(df))) = df_filtered
            /\ T(D(S(df))) = df_filtered
            /\ D(T(S(df))) = df_filtered
            /\ S(D(T(df))) = df_filtered
            /\ D(S(T(df))) = df_filtered
C3_Witness ==
    /\ Filtered
    /\ DateFilter(df, date_range) # df
    /\ StatusFilter(df, selected_status) # df
    /\ TipoFilter(df, selected_tipo) # df
    /\ StatusFilter(df, selected_status) # TipoFilter(df, selected_tipo)
    /\ DateFilter(df, date_range) # StatusFilter(df, selected_status)
    /\ df_filtered # << >>

(* ------------------------------- C4 ------------------------------------ *)
\* C4: every row's Categoria is one of three labels and is decided by its
\* issue type alone: 'Histórias' for exactly 'História', else 'Bugs' when the
\* type contains 'Bug', else 'Outros' (also for a missing type); filtering
\* and aggregation leave the Categoria of a row as derived.
C4_Claimed(t) ==
    IF t = Historia THEN "Histórias"
    ELSE IF t # NaN /\ Contains(t, BugWord) THEN "Bugs"
    ELSE "Outros"
C4_CategoryOfIssueType ==
    Loaded =>
        /\ Len(df) = Len(uploaded_file.rows)
        /\ \A i \in 1..Len(df) :
              /\ df[i].Categoria \in {"Histórias", "Bugs", "Outros"}
              /\ df[i].Categoria = C4_Claimed(uploaded_file.rows[i].IssueType)
        /\ \A r \in Rows(df_filtered) :
              r.Categoria = C4_Claimed(uploaded_file.rows[r.idx].IssueType)
C4_Witness ==
    /\ pc = "done"
    /\ \E r \in Rows(df_filtered) : r.IssueType = SubBug /\ r.Categoria = "Bugs"
    /\ \E r \in Rows(df) : r.IssueType \in {NaN, LowerBug} /\ r.Categoria = "Outros"

(* ------------------------------- C5 ------------------------------------ *)
\* C5 (as claimed): a record has a defined lead time exactly when its
\* resolved timestamp is non-null, also when its created value is null.
C5_DefinedIffResolved ==
    Loaded =>
        \A i \in 1..Len(uploaded_file.rows) :
            to_datetime(uploaded_file.rows[i].Resolved) # NaT
            <=> \E r \in Rows(resolved_df) : r.idx = i /\ ~r.Lead_Time_Days.nan

\* C5 (amended): a record is in the resolved subset exactly when its resolved
\* timestamp is non-null, and its lead time is defined exactly when its
\* created timestamp is non-null as well; a defined lead time equals resolved
\* minus created in days, non-negative when resolved >= created and negative
\* when resolved < created; a resolved record with a null created value has a
\* missing (NaN) lead time.
C5_LeadTime ==
    Loaded =>
        LET rows == uploaded_file.rows
        IN  /\ Ids(resolved_df) =
                  {i \in 1..Len(rows) : to_datetime(rows[i].Resolved) # NaT}
            /\ \A k \in 1..Len(resolved_df) :
                  LET lead == resolved_df[k].Lead_Time_Days
                      created == to_datetime(rows[resolved_df[k].idx].Created)
                      resolved == to_datetime(rows[resolved_df[k].idx].Resolved)
                  IN  /\ lead.nan <=> created = NaT
                      /\ created # NaT =>
                            /\ RatEq(lead, Rat(resolved - created, MinutesPerDay))
                            /\ resolved >= created => lead.num >= 0
                            /\ resolved < created => lead.num < 0
C5_Witness ==
    /\ Loaded
    /\ \E r \in Rows(resolved_df) : ~r.Lead_Time_Days.nan /\ r.Lead_Time_Days.num < 0
    /\ \E r \in Rows(resolved_df) : r.Lead_Time_Days.nan

(* ------------------------------- C6 ------------------------------------ *)
\* C6 (as claimed): with no file, or with a file of zero data rows, the run
\* stops in the prompt state: nothing past ingestion is computed and no
\* fault is raised.
C6_NoRowsHaltsAtPrompt ==
    (~uploaded_file.present \/ Len(uploaded_file.rows) = 0) =>
        /\ pc \in {"upload", "prompt"}
        /\ fault = "none"

(* ------------------------------- C7 ------------------------------------ *)
\* C7: whatever the date range, status selection and category selection, the
\* resolved subset is all resolved records of the file and the lead-time
\* median is the median over all of them (0 when there is none).
C7_MedianIgnoresFilters ==
    KpiAssigned =>
        LET all == ResolvedFrame(uploaded_file.rows)
        IN  /\ resolved_df = all
            /\ Ids(resolved_df) =
                  {i \in 1..Len(uploaded_file.rows) :
                      uploaded_file.rows[i].Resolved.wf}
            /\ kpi.lead_time_median =
                  IF all = << >> THEN Zero ELSE Median(all)
C7_Witness ==
    /\ pc = "done"
    /\ \E r \in Rows(resolved_df) :
          r.idx \notin Ids(df_filtered) /\ ~r.Lead_Time_Days.nan
    /\ \E r \in Rows(resolved_df) :
          r.idx \in Ids(df_filtered) /\ ~r.Lead_Time_Days.nan
    /\ ~kpi.lead_time_median.nan
    /\ kpi.lead_time_median.den = 2 * SecondsPerDay

(* ------------------------------- C8 ------------------------------------ *)
\* C8: with both endpoints selected the view holds only rows whose created
\* day lies in [start, end], none with a null created value; with fewer than
\* two endpoints the date filter removes nothing, so every row passing the
\* status and category filters, null created value or not, is in the view.
C8_DateRange ==
    Filtered =>
        /\ Len(date_range) = 2 =>
              \A r \in Rows(df_filtered) :
                  /\ r.Created # NaT
                  /\ date_range[1] <= r.Created \div MinutesPerDay
                  /\ r.Created \div MinutesPerDay <= date_range[2]
        /\ Len(date_range) < 2 =>
              \A r \in Rows(df) :
                  r \in Rows(df_filtered) <=>
                      /\ (Todos \in selected_status \/ selected_status = {}
                            \/ r.Status \in selected_status)
                      /\ (Todos \in selected_tipo \/ selected_tipo = {}
                            \/ r.Categoria \in selected_tipo)
C8_Witness ==
    /\ Filtered
    /\ Len(date_range) = 2
    /\ \E r \in Rows(df_filtered) :
          /\ r.Created \div MinutesPerDay = date_range[2]
          /\ r.Created % MinutesPerDay > 0
    /\ \E r \in Rows(df) : r.Created = NaT
(* ------------------------------- C9 ------------------------------------ *)
\* C9: done is the number of rows with status 'Done', the completion rate is
\* done/total in percent (0 for no rows), the story/bug ratio is
\* stories/bugs (0 for no bugs) and WIP is total minus the rows whose status
\* is 'Done', 'Canceled' or 'Cancelado'; a 10-row view with 6 'Done', 7
\* 'História' and 3 'Bug' rows, none cancelled, has rate 60, ratio 7/3, WIP 4.
C9_Count(P(_)) == Cardinality({i \in 1..Len(df_filtered) : P(df_filtered[i])})
C9_Kpis ==
    KpiAssigned =>
        LET total == Len(df_filtered)
            isDone(r) == r.Status = "Done"
            isStory(r) == r.Categoria = "Histórias"
            isBugRow(r) == r.Categoria = "Bugs"
            isClosed(r) == r.Status \in {"Done", "Canceled", "Cancelado"}
            typeStory(r) == r.IssueType = Historia
            typeBug(r) == r.IssueType = BugWord
        IN  /\ kpi.total_issues = total
            /\ kpi.done_issues = C9_Count(isDone)
            /\ IF total = 0 THEN RatEq(kpi.completion_rate, Zero)
               ELSE kpi.completion_rate.num * total
                        = 100 * C9_Count(isDone) * kpi.completion_rate.den
            /\ IF C9_Count(isBugRow) = 0 THEN RatEq(kpi.ratio_valor_divida, Zero)
               ELSE kpi.ratio_valor_divida.num * C9_Count(isBugRow)
                        = C9_Count(isStory) * kpi.ratio_valor_divida.den
            /\ kpi.wip = total - C9_Count(isClosed)
            /\ (/\ total = 10 /\ C9_Count(isDone) = 6
                /\ C9_Count(typeStory) = 7 /\ C9_Count(typeBug) = 3
                /\ C9_Count(isClosed) = 6) =>
                  /\ RatEq(kpi.completion_rate, Rat(60, 1))
                  /\ RatEq(kpi.ratio_valor_divida, Rat(7, 3))
                  /\ kpi.wip = 4
C9_Witness ==
    /\ pc = "done"
    /\ kpi.total_issues = 10 /\ kpi.done_issues = 6
    /\ kpi.historias = 7 /\ kpi.bugs = 3
    /\ RatEq(kpi.completion_rate, Rat(60, 1))
    /\ RatEq(kpi.ratio_valor_divida, Rat(7, 3))
    /\ kpi.wip = 4

(* ------------------------------- C10 ----------------------------------- *)
\* C10 (as claimed): a file lacking an optional column does not make the run
\* fail; once the KPIs are shown the run goes on to the table and download.
C10_MissingColumnNoFault ==
    (uploaded_file.present /\ ~(OptionalColumns \subseteq uploaded_file.columns))
        => fault # "KeyError"

====
